---- MODULE Spec2Model ----
(***************************************************************************)
(* Model of the Telegram deals bot of bot.py: the scheduler loop of        *)
(* run_bot, the candidate pipeline of one cycle, the posting state and     *)
(* the state file.                                                         *)
(*                                                                         *)
(* Strings are sequences of one-character strings.  The clock counts       *)
(* seconds since the midnight that starts day 0, in the configured         *)
(* timezone.  A date string "%Y-%m-%d" is modelled by the one-element      *)
(* sequence holding the day number, the empty string by <<>>.              *)
(* SHA-256 is modelled as injective on the bytes it digests: a digest is   *)
(* represented by the byte string it was computed from.                    *)
(***************************************************************************)
EXTENDS Integers, Sequences, FiniteSets, TLC

(***************************************************************************)
(* Bounds of the model.                                                    *)
(***************************************************************************)
\* the largest max_posts_per_day a configuration of the model carries
MaxQuota == 2
\* no sleep moves the clock further than this many minutes beyond StartClock
MaxMinutes == 12

(***************************************************************************)
(* Program constants.                                                      *)
(***************************************************************************)
SecondsPerDay == 86400
WindowSleep == 60
QuotaSleep == 300
TelegramErrorSleep == 120
UnexpectedErrorSleep == 60
RolloverCap == 500
RecordCap == 1500
EntriesPerFeed == 25
DefaultRank == 999
HttpOk == 200

(***************************************************************************)
(* Text helpers.                                                           *)
(***************************************************************************)
Whitespace == {" "}

Ellipsis == "..."

RECURSIVE lstrip(_)
lstrip(s) ==
    IF s # <<>> /\ Head(s) \in Whitespace THEN lstrip(Tail(s)) ELSE s

RECURSIVE rstrip(_)
rstrip(s) ==
    IF s # <<>> /\ s[Len(s)] \in Whitespace
    THEN rstrip(SubSeq(s, 1, Len(s) - 1))
    ELSE s

strip(s) == rstrip(lstrip(s))

\* " ".join(s.strip().split()): runs of whitespace become one space
RECURSIVE collapse(_)
collapse(s) ==
    IF s = <<>> THEN <<>>
    ELSE IF Head(s) \in Whitespace
         THEN LET rest == lstrip(s)
              IN  IF rest = <<>> THEN <<>> ELSE <<" ">> \o collapse(rest)
         ELSE <<Head(s)>> \o collapse(Tail(s))

\* s[:k] of Python, k may be negative
slice_to(s, k) ==
    LET n == IF k >= 0 THEN (IF k < Len(s) THEN k ELSE Len(s))
             ELSE (IF Len(s) + k > 0 THEN Len(s) + k ELSE 0)
    IN  SubSeq(s, 1, n)

\* s[-k:] of Python for k > 0
last_n(s, k) ==
    IF Len(s) <= k THEN s ELSE SubSeq(s, Len(s) - k + 1, Len(s))

short_text(s, max_len) ==
    LET t == collapse(strip(s))
    IN  IF Len(t) <= max_len THEN t
        ELSE slice_to(t, max_len - 1) \o <<Ellipsis>>

lower_char(c) ==
    CASE c = "A" -> "a"
      [] c = "B" -> "b"
      [] c = "S" -> "s"
      [] OTHER -> c

lower(s) == [i \in 1..Len(s) |-> lower_char(s[i])]

\* Python's  k in text  on strings
contains(text, k) ==
    \E i \in 0..(Len(text) - Len(k)) : SubSeq(text, i + 1, i + Len(k)) = k

compute_hash(title, link) == title \o <<"|">> \o link

\* mutant: a required keyword that matches settles it, the blocked ones are
\* looked at only when nothing is required
passes_filters_required_wins(c, title, summary) ==
    LET text == lower(title \o <<" ">> \o summary)
        required_hit ==
            \E i \in 1..Len(c.required_keywords_any) :
                contains(text, lower(c.required_keywords_any[i]))
        blocked ==
            \E i \in 1..Len(c.blocked_keywords) :
                contains(text, lower(c.blocked_keywords[i]))
    IN  IF c.required_keywords_any # <<>> THEN required_hit ELSE ~blocked

passes_filters(c, title, summary) ==
    LET text == lower(title \o <<" ">> \o summary)
        required_ok ==
            \/ c.required_keywords_any = <<>>
            \/ \E i \in 1..Len(c.required_keywords_any) :
                   contains(text, lower(c.required_keywords_any[i]))
        blocked ==
            \E i \in 1..Len(c.blocked_keywords) :
                contains(text, lower(c.blocked_keywords[i]))
    IN  required_ok /\ ~blocked

(***************************************************************************)
(* Time of day.                                                            *)
(***************************************************************************)
digit(c) ==
    CASE c = "0" -> 0 [] c = "1" -> 1 [] c = "2" -> 2 [] c = "3" -> 3
      [] c = "4" -> 4 [] c = "5" -> 5 [] c = "6" -> 6 [] c = "7" -> 7
      [] c = "8" -> 8 [] c = "9" -> 9

RECURSIVE to_int(_)
to_int(s) ==
    IF s = <<>> THEN 0 ELSE 10 * to_int(SubSeq(s, 1, Len(s) - 1)) + digit(s[Len(s)])

\* map(int, "HH:MM".split(":")) followed by dt_time(h, m), in seconds of the day
hhmm(s) ==
    LET colon == CHOOSE i \in 1..Len(s) : s[i] = ":"
    IN  3600 * to_int(SubSeq(s, 1, colon - 1))
          + 60 * to_int(SubSeq(s, colon + 1, Len(s)))

strftime_day(t) == <<t \div SecondsPerDay>>

time_of_day(t) == t % SecondsPerDay

\* mutant: the end of a window is not part of it
in_posting_window_end_excluded(c, t) ==
    \/ c.windows = <<>>
    \/ \E i \in 1..Len(c.windows) :
           /\ hhmm(c.windows[i].start) <= time_of_day(t)
           /\ time_of_day(t) < hhmm(c.windows[i].end)

in_posting_window(c, t) ==
    \/ c.windows = <<>>
    \/ \E i \in 1..Len(c.windows) :
           /\ hhmm(c.windows[i].start) <= time_of_day(t)
           /\ time_of_day(t) <= hhmm(c.windows[i].end)

(***************************************************************************)
(* Configuration (config.yaml and BOT_TOKEN), read once at start-up.       *)
(***************************************************************************)
Sources ==
    << [name |-> "alfa", type |-> "rss", url |-> "u1", region |-> "IT",
        lang |-> "it", rank |-> 2],
       [name |-> "beta", type |-> "atom", url |-> "u2", region |-> "IT",
        lang |-> "it", rank |-> 1],
       [name |-> "gamma", type |-> "rss", url |-> "u3", region |-> "IT",
        lang |-> "it", rank |-> 1],
       [name |-> "delta", type |-> "rss", url |-> "u4", region |-> "EN",
        lang |-> "en"] >>

WindowChoices ==
    { <<>>,
      << [start |-> <<"2", "3", ":", "5", "0">>, end |-> <<"2", "3", ":", "5", "5">>],
         [start |-> <<"0", "0", ":", "0", "1">>, end |-> <<"0", "0", ":", "1", "0">>] >> }

PollChoices == {300, 900}

CooldownChoices == {600}

TokenChoices == { <<>>, <<"k">> }

ChannelChoices == { <<" ", "@", "c">>, <<"c">> }

Configs ==
    { [bot_token |-> tk, channel_it |-> ch, timezone |-> "Europe/Rome",
       max_posts_per_day |-> m, poll_interval_seconds |-> p,
       cooldown_seconds |-> cd, windows |-> w,
       required_keywords_any |-> << <<"a">>, <<"B">> >>,
       blocked_keywords |-> << <<"s">> >>,
       max_title_len |-> 3, sources |-> Sources] :
      tk \in TokenChoices, ch \in ChannelChoices, m \in 0..MaxQuota,
      p \in PollChoices, cd \in CooldownChoices, w \in WindowChoices }

(***************************************************************************)
(* What the feeds may return.                                              *)
(***************************************************************************)
EntryA == [title |-> <<"a">>, link |-> <<"x">>, summary |-> <<>>, description |-> <<>>]

EntryA2 ==
    [title |-> <<" ", "a">>, link |-> <<"x", " ">>, summary |-> <<>>,
     description |-> <<"b">>]

EntryB ==
    [title |-> <<"B", " ", " ", "b", "b">>, link |-> <<"y">>, summary |-> <<"b">>,
     description |-> <<>>]

EntryNoLink == [title |-> <<"a">>, link |-> <<" ">>, summary |-> <<>>, description |-> <<>>]

EntryBlocked ==
    [title |-> <<"a">>, link |-> <<"z">>, summary |-> <<>>, description |-> <<"S">>]

FeedChoices == { <<EntryA2, EntryB>>, <<EntryNoLink, EntryBlocked, EntryA>> }

\* what sendMessage may answer
StatusChoices == {200, 400}

(***************************************************************************)
(* The posting state and the state file.                                   *)
(***************************************************************************)
EmptyState == [day |-> <<>>, posts_today |-> 0, recent_hashes |-> <<>>]

NoFile == [kind |-> "absent", data |-> EmptyState]

Corrupt == [kind |-> "corrupt", data |-> EmptyState]

File(s) == [kind |-> "file", data |-> s]

\* digests of posts made before the model starts
OldHash(i) == <<ToString(i)>>

OldHashes(n) == [i \in 1..n |-> OldHash(i)]

HashA == compute_hash(<<"a">>, <<"x">>)

LedgerChoices ==
    { <<>>, <<HashA>> \o OldHashes(RecordCap - 1), OldHashes(RolloverCap + 1) }

StartClock == SecondsPerDay - 600

MaxClock == StartClock + 60 * MaxMinutes

\* load_state: the default state when there is no file, else what a run of
\* the bot under this configuration wrote on day 0
load_state(c) ==
    { [state |-> EmptyState, disk |-> NoFile] } \cup
    { [state |-> s, disk |-> File(s)] :
        s \in { [day |-> <<0>>, posts_today |-> n, recent_hashes |-> r] :
                  n \in 0..c.max_posts_per_day, r \in LedgerChoices } }

\* mutant: the file gets the day and the counter, its ledger is left as it was
save_state_without_ledger(d, s) ==
    { [raised |-> FALSE,
       disk |-> File([s EXCEPT !.recent_hashes = d.data.recent_hashes])],
      [raised |-> TRUE, disk |-> d],
      [raised |-> TRUE, disk |-> Corrupt] }

\* save_state: writes the whole state, or raises leaving the old file or a
\* truncated one
save_state(d, s) ==
    { [raised |-> FALSE, disk |-> File(s)],
      [raised |-> TRUE, disk |-> d],
      [raised |-> TRUE, disk |-> Corrupt] }

VARIABLES
    cfg,          \* the configuration
    web,          \* what the feed URLs may serve: a set of feeds
    call,         \* <<>>, or the call of a function taken alone: its
                  \* arguments and, once it returned, its result
    state,        \* the posting state in memory
    disk,         \* state.json
    clock,        \* the wall clock, seconds
    now,          \* the local time read at the top of the iteration
    pc,           \* where run_bot is
    src_i,        \* index of the source being handled
    candidates,   \* the candidate list of the cycle
    idx,          \* index of the candidate being handled
    code,         \* status of the last send of the cycle, 0 before any
    attempts,     \* history: the sends of the cycle, [idx, code, at]
    fetch_log,    \* history: the sources handled in the cycle, [name, outcome,
                  \* items], items being the candidates the source added
    rolled_from,  \* history: <<day and posts_today before>> if reset_daily rolled
                  \* the day in this iteration, else <<>>
    cycle0,       \* history: state and file when the pipeline of the cycle began
    last_post,    \* history: clock of the last successful publish, <<>> if none
    save_failed   \* history: the last save_state call raised

vars ==
    <<cfg, web, call, state, disk, clock, now, pc, src_i, candidates, idx, code,
      attempts, fetch_log, rolled_from, cycle0, last_post, save_failed>>

cycle_vars == <<src_i, candidates, idx, code, attempts, fetch_log>>

hist_vars == <<rolled_from, cycle0, last_post, save_failed>>

Init ==
    /\ cfg \in Configs
    /\ web = FeedChoices
    /\ call = <<>>
    /\ \E l \in load_state(cfg) : state = l.state /\ disk = l.disk
    /\ clock = StartClock
    /\ now = StartClock
    /\ pc = "start"
    /\ src_i = 1
    /\ candidates = <<>>
    /\ idx = 1
    /\ code = 0
    /\ attempts = <<>>
    /\ fetch_log = <<>>
    /\ rolled_from = <<>>
    /\ cycle0 = [state |-> state, disk |-> disk]
    /\ last_post = <<>>
    /\ save_failed = FALSE

(***************************************************************************)
(* run_bot, lines 156-169: the configuration checks.                       *)
(***************************************************************************)
\* mutant: lines 167-169 missing, the channel is not looked at
config_ok_token_only(c) == c.bot_token # <<>>

config_ok(c) ==
    /\ c.bot_token # <<>>
    /\ strip(c.channel_it) # <<>>
    /\ Head(strip(c.channel_it)) = "@"

Startup ==
    /\ pc = "start"
    /\ pc' = IF config_ok(cfg) THEN "top" ELSE "disabled"
    /\ UNCHANGED <<cfg, web, call, state, disk, clock, now, cycle_vars, hist_vars>>

(***************************************************************************)
(* The loop of run_bot, lines 180-243.                                     *)
(***************************************************************************)
\* mutant: line 175 missing, the counter survives the rollover
reset_daily_state_keeps_count(s, t) ==
    IF s.day # strftime_day(t)
    THEN [day |-> strftime_day(t), posts_today |-> s.posts_today,
          recent_hashes |-> last_n(s.recent_hashes, RolloverCap)]
    ELSE s

reset_daily_state(s, t) ==
    IF s.day # strftime_day(t)
    THEN [day |-> strftime_day(t), posts_today |-> 0,
          recent_hashes |-> last_n(s.recent_hashes, RolloverCap)]
    ELSE s

\* mutant: the comparison of lines 190 and 223 off by one
quota_reached_off_by_one(s, c) == s.posts_today > c.max_posts_per_day

quota_reached(s, c) == s.posts_today >= c.max_posts_per_day

\* mutant: every status below 500 taken for a success
is_success_below_500(status) == status < 500

is_success(status) == status = HttpOk

\* mutant: [:1500] for [-1500:], the newest entries are the ones dropped
record_post_keeps_oldest(s, h) ==
    [s EXCEPT !.posts_today = @ + 1,
              !.recent_hashes = slice_to(Append(@, h), RecordCap)]

record_post(s, h) ==
    [s EXCEPT !.posts_today = @ + 1,
              !.recent_hashes = last_n(Append(@, h), RecordCap)]

source_enabled(src) ==
    /\ src.type = "rss"
    /\ src.region = "IT"
    /\ src.lang = "it"

source_rank(src) == IF "rank" \in DOMAIN src THEN src.rank ELSE DefaultRank

entry_summary(e) == strip(IF e.summary # <<>> THEN e.summary ELSE e.description)

\* mutant: the ledger is not consulted
seen_never(s, h) == FALSE

\* mutant: line 206 without its slice, every entry of the feed is handled
first_entries_all(feed) == feed

\* line 206:  feed.entries[:25]
first_entries(feed) == slice_to(feed, EntriesPerFeed)

\* mutant: only the newest record of the ledger is compared
seen_last_only(s, h) ==
    /\ s.recent_hashes # <<>>
    /\ s.recent_hashes[Len(s.recent_hashes)] = h

\* line 215:  h in state["recent_hashes"]
seen(s, h) == \E i \in 1..Len(s.recent_hashes) : s.recent_hashes[i] = h

\* lines 206-217 for the entries of one feed, in order
RECURSIVE collect_entries(_, _, _, _)
collect_entries(c, s, src, entries) ==
    IF entries = <<>> THEN <<>>
    ELSE LET e == Head(entries)
             title == short_text(e.title, c.max_title_len)
             link == strip(e.link)
             h == compute_hash(title, link)
             keep ==
                 /\ title # <<>>
                 /\ link # <<>>
                 /\ passes_filters(c, title, entry_summary(e))
                 /\ ~seen(s, h)
             this == IF keep
                     THEN << [rank |-> source_rank(src), name |-> src.name,
                              title |-> title, link |-> link, h |-> h] >>
                     ELSE <<>>
         IN  this \o collect_entries(c, s, src, Tail(entries))

\* mutant: a sort that puts a candidate before those of its own rank
RECURSIVE insert_by_rank_before_equals(_, _)
insert_by_rank_before_equals(sorted, x) ==
    IF sorted = <<>> THEN <<x>>
    ELSE IF sorted[Len(sorted)].rank < x.rank THEN Append(sorted, x)
    ELSE Append(insert_by_rank_before_equals(SubSeq(sorted, 1, Len(sorted) - 1), x),
                sorted[Len(sorted)])

\* list.sort(key=rank): stable, ascending
RECURSIVE insert_by_rank(_, _)
insert_by_rank(sorted, x) ==
    IF sorted = <<>> THEN <<x>>
    ELSE IF sorted[Len(sorted)].rank <= x.rank THEN Append(sorted, x)
    ELSE Append(insert_by_rank(SubSeq(sorted, 1, Len(sorted) - 1), x),
                sorted[Len(sorted)])

RECURSIVE sort_by_rank(_)
sort_by_rank(l) ==
    IF l = <<>> THEN <<>>
    ELSE insert_by_rank(sort_by_rank(SubSeq(l, 1, Len(l) - 1)), l[Len(l)])

\* mutant: line 182 missing, the gates run without the rollover before them
LoopTop_no_rollover ==
    /\ pc = "top"
    /\ now' = clock
    /\ pc' = "gate"
    /\ UNCHANGED <<cfg, web, call, state, disk, clock, cycle_vars, hist_vars>>

\* lines 181-182: read the clock and roll the day over; neither is inside
\* the try block
LoopTop ==
    /\ pc = "top"
    /\ now' = clock
    /\ LET s == reset_daily_state(state, clock)
       IN  /\ state' = s
           /\ rolled_from' =
                  IF s # state
                  THEN << [day |-> state.day, posts_today |-> state.posts_today] >>
                  ELSE <<>>
           /\ IF s # state
              THEN \E o \in save_state(disk, s) :
                       /\ disk' = o.disk
                       /\ save_failed' = o.raised
                       /\ pc' = IF o.raised THEN "dead" ELSE "gate"
              ELSE /\ pc' = "gate"
                   /\ UNCHANGED <<disk, save_failed>>
    /\ UNCHANGED <<cfg, web, call, clock, cycle_vars, cycle0, last_post>>

\* line 181: current_local_time raises (no such timezone)
LocalTimeRaises ==
    /\ pc = "top"
    /\ pc' = "dead"
    /\ UNCHANGED <<cfg, web, call, state, disk, clock, now, cycle_vars, hist_vars>>

\* mutant: lines 190-192 missing, only the window is looked at
Gate_without_quota_gate ==
    /\ pc = "gate"
    /\ pc' = IF ~in_posting_window(cfg, now) THEN "sleep_window" ELSE "collect"
    /\ src_i' = 1
    /\ candidates' = <<>>
    /\ idx' = 1
    /\ code' = 0
    /\ attempts' = <<>>
    /\ fetch_log' = <<>>
    /\ cycle0' = [state |-> state, disk |-> disk]
    /\ UNCHANGED <<cfg, web, call, state, disk, clock, now, rolled_from,
                   last_post, save_failed>>

\* lines 184-194: the window gate and the quota gate
Gate ==
    /\ pc = "gate"
    /\ pc' = IF ~in_posting_window(cfg, now) THEN "sleep_window"
             ELSE IF quota_reached(state, cfg) THEN "sleep_quota"
             ELSE "collect"
    /\ src_i' = 1
    /\ candidates' = <<>>
    /\ idx' = 1
    /\ code' = 0
    /\ attempts' = <<>>
    /\ fetch_log' = <<>>
    /\ cycle0' = [state |-> state, disk |-> disk]
    /\ UNCHANGED <<cfg, web, call, state, disk, clock, now, rolled_from,
                   last_post, save_failed>>

\* lines 195-200: a source that is not an Italian RSS source is passed over
SkipSource ==
    /\ pc = "collect"
    /\ src_i <= Len(cfg.sources)
    /\ ~source_enabled(cfg.sources[src_i])
    /\ src_i' = src_i + 1
    /\ fetch_log' = Append(fetch_log, [name |-> cfg.sources[src_i].name,
                                       outcome |-> "skipped", items |-> <<>>])
    /\ UNCHANGED <<cfg, web, call, state, disk, clock, now, pc, candidates, idx,
                   code, attempts, hist_vars>>

\* lines 201-217: the feed is fetched and its first entries are collected
FetchSource ==
    /\ pc = "collect"
    /\ src_i <= Len(cfg.sources)
    /\ source_enabled(cfg.sources[src_i])
    /\ \E feed \in web :
           LET items == collect_entries(cfg, state, cfg.sources[src_i],
                                        first_entries(feed))
           IN  /\ candidates' = candidates \o items
               /\ fetch_log' = Append(fetch_log, [name |-> cfg.sources[src_i].name,
                                                  outcome |-> "fetched",
                                                  items |-> items])
    /\ src_i' = src_i + 1
    /\ UNCHANGED <<cfg, web, call, state, disk, clock, now, pc, idx, code,
                   attempts, hist_vars>>

\* mutant: lines 201-205 without their try, the exception reaches line 241
FetchFails_aborts_cycle ==
    /\ pc = "collect"
    /\ src_i <= Len(cfg.sources)
    /\ source_enabled(cfg.sources[src_i])
    /\ pc' = "sleep_err"
    /\ fetch_log' = Append(fetch_log, [name |-> cfg.sources[src_i].name,
                                       outcome |-> "failed", items |-> <<>>])
    /\ UNCHANGED <<cfg, web, call, state, disk, clock, now, src_i, candidates,
                   idx, code, attempts, hist_vars>>

\* lines 201-205: fetch_rss raises, the source is skipped
FetchFails ==
    /\ pc = "collect"
    /\ src_i <= Len(cfg.sources)
    /\ source_enabled(cfg.sources[src_i])
    /\ src_i' = src_i + 1
    /\ fetch_log' = Append(fetch_log, [name |-> cfg.sources[src_i].name,
                                       outcome |-> "failed", items |-> <<>>])
    /\ UNCHANGED <<cfg, web, call, state, disk, clock, now, pc, candidates, idx,
                   code, attempts, hist_vars>>

\* line 219
SortCandidates ==
    /\ pc = "collect"
    /\ src_i > Len(cfg.sources)
    /\ candidates' = sort_by_rank(candidates)
    /\ idx' = 1
    /\ pc' = "post"
    /\ UNCHANGED <<cfg, web, call, state, disk, clock, now, src_i, code,
                   attempts, fetch_log, hist_vars>>

\* lines 222-225: the next candidate, unless the list is done or the quota
\* is reached
NextCandidate ==
    /\ pc = "post"
    /\ pc' = IF idx > Len(candidates) \/ quota_reached(state, cfg)
             THEN "sleep_poll" ELSE "send"
    /\ UNCHANGED <<cfg, web, call, state, disk, clock, now, cycle_vars, hist_vars>>

\* mutant: line 234 missing, after a publish the for loop goes on as after a
\* refusal
after_publish_without_break(raised) == IF raised THEN "sleep_err" ELSE "sleep_tg"

\* lines 231-234 or 241-243: after a publish the for loop is left, for the
\* poll sleep or, when save_state raised, for the handler
after_publish(raised) == IF raised THEN "sleep_err" ELSE "sleep_poll"

\* lines 226-238: the send returns a status
TelegramSend ==
    /\ pc = "send"
    /\ \E status \in StatusChoices :
           /\ code' = status
           /\ attempts' = Append(attempts, [idx |-> idx, code |-> status, at |-> clock])
           /\ IF is_success(status)
              THEN /\ state' = record_post(state, candidates[idx].h)
                   /\ last_post' = <<clock>>
                   /\ \E o \in save_state(disk, state') :
                          /\ disk' = o.disk
                          /\ save_failed' = o.raised
                          /\ pc' = after_publish(o.raised)
              ELSE /\ pc' = "sleep_tg"
                   /\ UNCHANGED <<state, disk, last_post, save_failed>>
    /\ UNCHANGED <<cfg, web, call, clock, now, src_i, candidates, idx, fetch_log,
                   rolled_from, cycle0>>

\* line 226: the send raises (timeout, connection error)
TelegramSendRaises ==
    /\ pc = "send"
    /\ pc' = "sleep_err"
    /\ UNCHANGED <<cfg, web, call, state, disk, clock, now, cycle_vars, hist_vars>>

sleep(seconds, next) ==
    /\ clock + seconds <= MaxClock
    /\ clock' = clock + seconds
    /\ pc' = next

\* the iteration is over: its locals are dead, and the history variables of
\* the cycle start afresh
end_iteration ==
    /\ src_i' = 1
    /\ candidates' = <<>>
    /\ idx' = 1
    /\ code' = 0
    /\ attempts' = <<>>
    /\ fetch_log' = <<>>
    /\ rolled_from' = <<>>
    /\ cycle0' = [state |-> state, disk |-> disk]

\* lines 187-188
SleepWindow ==
    /\ pc = "sleep_window"
    /\ sleep(WindowSleep, "top")
    /\ end_iteration
    /\ UNCHANGED <<cfg, web, call, state, disk, now, last_post, save_failed>>

\* lines 191-192
SleepQuota ==
    /\ pc = "sleep_quota"
    /\ sleep(QuotaSleep, "top")
    /\ end_iteration
    /\ UNCHANGED <<cfg, web, call, state, disk, now, last_post, save_failed>>

\* mutant: line 238 missing, the next candidate follows at once
SleepTelegramError_no_pause ==
    /\ pc = "sleep_tg"
    /\ pc' = "post"
    /\ idx' = idx + 1
    /\ UNCHANGED <<cfg, web, call, state, disk, clock, now, src_i, candidates,
                   code, attempts, fetch_log, hist_vars>>

\* line 238, then the next candidate of the for loop
SleepTelegramError ==
    /\ pc = "sleep_tg"
    /\ sleep(TelegramErrorSleep, "post")
    /\ idx' = idx + 1
    /\ UNCHANGED <<cfg, web, call, state, disk, now, src_i, candidates, code,
                   attempts, fetch_log, hist_vars>>

\* line 240
SleepPoll ==
    /\ pc = "sleep_poll"
    /\ sleep(cfg.poll_interval_seconds, "top")
    /\ end_iteration
    /\ UNCHANGED <<cfg, web, call, state, disk, now, last_post, save_failed>>

\* lines 241-243
SleepUnexpected ==
    /\ pc = "sleep_err"
    /\ sleep(UnexpectedErrorSleep, "top")
    /\ end_iteration
    /\ UNCHANGED <<cfg, web, call, state, disk, now, last_post, save_failed>>

(***************************************************************************)
(* The Flask application, lines 34-46 and 250-256: it runs in the main     *)
(* thread, run_bot in a daemon thread; its routes read and write nothing.  *)
(***************************************************************************)
home == <<"ok", 200>>

health == <<"ok", 200>>

ServeRequest ==
    /\ \E reply \in {home, health} : reply = <<"ok", 200>>
    /\ UNCHANGED vars

Next ==
    \/ Startup
    \/ LoopTop
    \/ LocalTimeRaises
    \/ Gate
    \/ SkipSource
    \/ FetchSource
    \/ FetchFails
    \/ SortCandidates
    \/ NextCandidate
    \/ TelegramSend
    \/ TelegramSendRaises
    \/ SleepWindow
    \/ SleepQuota
    \/ SleepTelegramError
    \/ SleepPoll
    \/ SleepUnexpected

Spec == Init /\ [][Next]_vars

(***************************************************************************)
(* The process as a whole: the bot thread and the Flask application, for   *)
(* one quota and one poll interval.                                        *)
(***************************************************************************)
InitService ==
    /\ Init
    /\ cfg.max_posts_per_day = 1
    /\ cfg.poll_interval_seconds = 300

NextService == Next \/ ServeRequest

SpecService == InitService /\ [][NextService]_vars

(***************************************************************************)
(* Properties.                                                             *)
(***************************************************************************)
\* a send returned this status in the step
SendReturned(status) ==
    /\ pc = "send"
    /\ Len(attempts') = Len(attempts) + 1
    /\ attempts'[Len(attempts')].code = status

SendFailed ==
    /\ pc = "send"
    /\ Len(attempts') = Len(attempts) + 1
    /\ attempts'[Len(attempts')].code # 200

\* a is what is left of b after dropping entries from its front
IsSuffix(a, b) ==
    /\ Len(a) <= Len(b)
    /\ a = SubSeq(b, Len(b) - Len(a) + 1, Len(b))

InPipeline == pc \in {"collect", "post", "send", "sleep_tg", "sleep_poll", "sleep_err"}

NoSuccessInCycle == \A k \in 1..Len(attempts) : attempts[k].code # 200

\* C1: posts_today never exceeds max_posts_per_day, and no send is in flight
\* once posts_today has reached max_posts_per_day.
C1_QuotaRespected ==
    /\ state.posts_today <= cfg.max_posts_per_day
    /\ pc = "send" => state.posts_today < cfg.max_posts_per_day

\* C1 witness: a publish brought posts_today to a positive maximum and a
\* later cycle was turned away by the quota gate.
C1_Witness ==
    /\ pc = "sleep_quota"
    /\ last_post # <<>>
    /\ cfg.max_posts_per_day > 0
    /\ state.posts_today = cfg.max_posts_per_day

\* C2: a step records a fingerprint exactly when a send of that candidate
\* returned 200; the same step adds one to posts_today; no other step adds an
\* entry to recent_hashes or raises posts_today.
C2_AppendIffSuccess ==
    [][ /\ SendReturned(200) =>
              /\ state'.recent_hashes # <<>>
              /\ state'.recent_hashes[Len(state'.recent_hashes)] = candidates[idx].h
              /\ state'.posts_today = state.posts_today + 1
        /\ ~IsSuffix(state'.recent_hashes, state.recent_hashes) => SendReturned(200)
        /\ state'.posts_today > state.posts_today => SendReturned(200)
      ]_vars

\* C2 witness: a send returned 200 and its fingerprint is the newest entry.
C2_Witness ==
    /\ pc \in {"sleep_poll", "sleep_err"}
    /\ code = 200
    /\ state.recent_hashes # <<>>
    /\ state.recent_hashes[Len(state.recent_hashes)] = candidates[idx].h

\* C3: a successful publish comes at least cooldown_seconds after the
\* successful publish before it.
C3_CooldownBetweenPublishes ==
    [][ (SendReturned(200) /\ last_post # <<>>) =>
            clock - last_post[1] >= cfg.cooldown_seconds ]_vars

\* C4: no failure ends the loop: run_bot is never left through an exception.
C4_LoopNeverTerminates == pc # "dead"

\* C5: a send that returns a failure status leaves the state in memory and
\* the state file as they were and is followed by the pause; no send is in
\* flight before the pause after the previous failure is over; as long as no
\* send of the cycle succeeded, state and file are those of the cycle's start.
C5_FailedSendChangesNothing ==
    /\ [][ SendFailed => (state' = state /\ disk' = disk /\ pc' = "sleep_tg") ]_vars
    /\ [](pc = "send" /\ attempts # <<>> =>
             clock >= attempts[Len(attempts)].at + TelegramErrorSleep)
    /\ [](InPipeline /\ NoSuccessInCycle =>
             (state = cycle0.state /\ disk = cycle0.disk))

\* C5 witness: a cycle ended after two sends that both failed.
C5_Witness ==
    /\ pc = "sleep_poll"
    /\ Len(attempts) = 2
    /\ NoSuccessInCycle
    /\ state = cycle0.state

SameItem(i, j) ==
    /\ candidates[i].title = candidates[j].title
    /\ candidates[i].link = candidates[j].link
    /\ candidates[i].name # candidates[j].name

\* C6 as claimed: of two candidates of a cycle with the same title and link
\* from different sources, the one later in rank order is never published.
C6_OnlyFirstDuplicatePublished ==
    \A k \in 1..Len(attempts) :
        attempts[k].code = 200 =>
            ~(\E i \in 1..(attempts[k].idx - 1) : SameItem(i, attempts[k].idx))

\* C6 as amended: of two candidates of a cycle with the same title and link
\* from different sources, the later in rank order is sent only after the
\* send of the earlier returned a failure status, so at most one of them is
\* published; and no send is in flight for a fingerprint that is in the
\* ledger.
C6_DuplicateSentOnlyAfterFailure ==
    /\ \A k \in 1..Len(attempts) :
           \A i \in 1..(attempts[k].idx - 1) :
               SameItem(i, attempts[k].idx) =>
                   \E k0 \in 1..(k - 1) :
                       attempts[k0].idx = i /\ attempts[k0].code # 200
    /\ \A k1, k2 \in 1..Len(attempts) :
           (k1 # k2 /\ SameItem(attempts[k1].idx, attempts[k2].idx)) =>
               ~(attempts[k1].code = 200 /\ attempts[k2].code = 200)
    /\ pc = "send" =>
           \A i \in 1..Len(state.recent_hashes) :
               state.recent_hashes[i] # candidates[idx].h

\* C6 witness: the send of the first of two such candidates failed and the
\* send of the second succeeded.
C6_Witness ==
    /\ Len(attempts) = 2
    /\ attempts[1].code # 200
    /\ attempts[2].code = 200
    /\ SameItem(1, 2)
    /\ state.recent_hashes[Len(state.recent_hashes)] = candidates[2].h

\* C7: the ledger never holds more than 1500 entries; a record leaves the
\* fingerprint as the last entry, before it the latest entries of the old
\* ledger in their order; a rollover leaves at most 500 entries, the latest
\* of the old ledger in their order.
C7_LedgerBounded ==
    /\ [](Len(state.recent_hashes) <= 1500)
    /\ [][ SendReturned(200) =>
               LET new == state'.recent_hashes
               IN  /\ new # <<>>
                   /\ new[Len(new)] = candidates[idx].h
                   /\ IsSuffix(SubSeq(new, 1, Len(new) - 1), state.recent_hashes)
                   /\ Len(new) = IF Len(state.recent_hashes) < 1500
                                 THEN Len(state.recent_hashes) + 1 ELSE 1500
         ]_vars
    /\ [][ (pc = "top" /\ state'.day # state.day) =>
               /\ IsSuffix(state'.recent_hashes, state.recent_hashes)
               /\ Len(state'.recent_hashes) =
                      IF Len(state.recent_hashes) < 500
                      THEN Len(state.recent_hashes) ELSE 500
         ]_vars

\* C7 witness: a record into a full ledger pushed the oldest entry out.
C7_Witness ==
    /\ code = 200
    /\ Len(state.recent_hashes) = 1500
    /\ state.recent_hashes[1] = OldHash(1)
    /\ state.recent_hashes[1500] = candidates[idx].h

\* C8: when reset_daily returns, then if the day of the local time differed
\* from state.day, state.day is that day, posts_today is 0, recent_hashes is
\* its last 500 entries and the file holds this state; if the day was the
\* same, state and file are untouched.  posts_today goes down in no other
\* step.
C8_ResetDaily ==
    [][ /\ (pc = "top" /\ pc' = "gate") =>
              IF state.day # <<clock \div 86400>>
              THEN /\ state'.day = <<clock \div 86400>>
                   /\ state'.posts_today = 0
                   /\ state'.recent_hashes = last_n(state.recent_hashes, 500)
                   /\ disk' = [kind |-> "file", data |-> state']
              ELSE state' = state /\ disk' = disk
        /\ state'.posts_today < state.posts_today =>
              (pc = "top" /\ state.day # <<clock \div 86400>>)
      ]_vars

\* C8 witness: a rollover reset a positive counter and cut a ledger of more
\* than 500 entries.
C8_Witness ==
    /\ pc = "gate"
    /\ rolled_from # <<>>
    /\ rolled_from[1].posts_today > 0
    /\ state.posts_today = 0
    /\ Len(state.recent_hashes) = 500
    /\ disk = File(state)

\* C9: when the gates are evaluated the rollover of the iteration has been
\* done: state.day is the day of the local time, posts_today is 0 if the day
\* was rolled, and an iteration that rolled the day is not turned away by the
\* quota gate unless max_posts_per_day is 0.
C9_RolloverBeforeQuota ==
    /\ pc = "gate" =>
           /\ state.day = <<now \div 86400>>
           /\ rolled_from # <<>> => state.posts_today = 0
    /\ (pc = "sleep_quota" /\ rolled_from # <<>>) => cfg.max_posts_per_day = 0

\* C9 witness: an iteration began on a new day with the counter of the day
\* before at a positive maximum and went on to collect candidates.
C9_Witness ==
    /\ pc = "collect"
    /\ rolled_from # <<>>
    /\ cfg.max_posts_per_day > 0
    /\ rolled_from[1].posts_today = cfg.max_posts_per_day
    /\ rolled_from[1].day = <<0>>
    /\ state.posts_today = 0

Waiting == pc \in {"sleep_window", "sleep_quota", "sleep_tg", "sleep_poll", "sleep_err"}

Calling == pc \in {"collect", "send"}

BadConfig ==
    \/ cfg.bot_token = <<>>
    \/ strip(cfg.channel_it) = <<>>
    \/ strip(cfg.channel_it)[1] # "@"

\* C11: with no token, or a channel (channels.it, stripped) that does not
\* begin with "@", run_bot is at its start or has returned: no source was
\* fetched, nothing was sent, state and file are those of the start; and the
\* Flask application answers.
C11_ConfigErrorDisablesBot ==
    BadConfig =>
        /\ pc \in {"start", "disabled"}
        /\ fetch_log = <<>>
        /\ attempts = <<>>
        /\ candidates = <<>>
        /\ state = cycle0.state
        /\ disk = cycle0.disk
        /\ clock = StartClock
        /\ ENABLED ServeRequest

\* C11 witness: run_bot returned because the channel does not begin with "@"
\* although the token is set.
C11_Witness ==
    /\ pc = "disabled"
    /\ cfg.bot_token # <<>>
    /\ strip(cfg.channel_it)[1] # "@"

FetchFailed ==
    /\ Len(fetch_log') = Len(fetch_log) + 1
    /\ fetch_log'[Len(fetch_log')].outcome = "failed"

Collected == pc \in {"post", "send", "sleep_tg", "sleep_poll", "sleep_err"}

RECURSIVE TotalItems(_)
TotalItems(log) ==
    IF log = <<>> THEN 0 ELSE Len(Head(log).items) + TotalItems(Tail(log))

\* C12: a fetch that fails leaves the candidate list, the state and the file
\* as they were and the cycle goes on with the next source; when the sources
\* are done every source was handled, the sources passed over are those not
\* enabled, a failed source added nothing, and the candidate list holds what
\* the fetched sources added and nothing else.
C12_FailedFetchSkipsSourceOnly ==
    /\ [][ FetchFailed =>
               /\ pc' = "collect"
               /\ src_i' = src_i + 1
               /\ candidates' = candidates
               /\ state' = state
               /\ disk' = disk ]_vars
    /\ [](Collected =>
             /\ Len(fetch_log) = Len(cfg.sources)
             /\ \A k \in 1..Len(fetch_log) :
                    /\ fetch_log[k].name = cfg.sources[k].name
                    /\ (fetch_log[k].outcome = "skipped") <=>
                           ~(cfg.sources[k].type = "rss" /\ cfg.sources[k].region = "IT"
                             /\ cfg.sources[k].lang = "it")
                    /\ fetch_log[k].outcome = "failed" => fetch_log[k].items = <<>>
                    /\ \A n \in 1..Len(fetch_log[k].items) :
                           \E i \in 1..Len(candidates) :
                               candidates[i] = fetch_log[k].items[n]
             /\ Len(candidates) = TotalItems(fetch_log))

\* C12 witness: the fetch of the first source failed and a candidate of a
\* later source is being sent.
C12_Witness ==
    /\ pc = "send"
    /\ fetch_log[1].outcome = "failed"
    /\ \E k \in 2..Len(fetch_log) :
           /\ fetch_log[k].outcome = "fetched"
           /\ fetch_log[k].items # <<>>
           /\ candidates[idx].name = fetch_log[k].name

(***************************************************************************)
(* The bot under a source list with a source that has no rank and with     *)
(* sources of equal rank.                                                  *)
(***************************************************************************)
RankedSources ==
    << [name |-> "eps", type |-> "rss", url |-> "u5", region |-> "IT",
        lang |-> "it"],
       [name |-> "alfa", type |-> "rss", url |-> "u1", region |-> "IT",
        lang |-> "it", rank |-> 2],
       [name |-> "beta", type |-> "atom", url |-> "u2", region |-> "IT",
        lang |-> "it", rank |-> 1],
       [name |-> "gamma", type |-> "rss", url |-> "u3", region |-> "IT",
        lang |-> "it", rank |-> 1],
       [name |-> "zeta", type |-> "rss", url |-> "u6", region |-> "IT",
        lang |-> "it", rank |-> 2] >>

RankedConfigs ==
    { [c EXCEPT !.sources = RankedSources] :
        c \in { k \in Configs : /\ k.bot_token # <<>>
                                /\ k.max_posts_per_day = 1
                                /\ k.poll_interval_seconds = 300 } }

\* the first start of the bot: no state file yet
InitRanked ==
    /\ cfg \in RankedConfigs
    /\ web = FeedChoices
    /\ call = <<>>
    /\ state = EmptyState
    /\ disk = NoFile
    /\ clock = StartClock
    /\ now = StartClock
    /\ pc = "start"
    /\ src_i = 1
    /\ candidates = <<>>
    /\ idx = 1
    /\ code = 0
    /\ attempts = <<>>
    /\ fetch_log = <<>>
    /\ rolled_from = <<>>
    /\ cycle0 = [state |-> state, disk |-> disk]
    /\ last_post = <<>>
    /\ save_failed = FALSE

SpecRanked == InitRanked /\ [][Next]_vars

RECURSIVE Flatten(_)
Flatten(log) == IF log = <<>> THEN <<>> ELSE Head(log).items \o Flatten(Tail(log))

OfRank(l, r) == SelectSeq(l, LAMBDA x : x.rank = r)

RanksOf(l) == { l[i].rank : i \in 1..Len(l) }

\* b holds the elements of a in the order of a, possibly with others between
RECURSIVE IsSubsequence(_, _)
IsSubsequence(a, b) ==
    IF a = <<>> THEN TRUE
    ELSE IF b = <<>> THEN FALSE
    ELSE IF Head(a) = Head(b) THEN IsSubsequence(Tail(a), Tail(b))
    ELSE IsSubsequence(a, Tail(b))

Item(title, link) == [title |-> title, link |-> link]

ItemsOf(l) == [i \in 1..Len(l) |-> Item(l[i].title, l[i].link)]

FeedItems(c, feed) ==
    [i \in 1..Len(feed) |->
        Item(short_text(feed[i].title, c.max_title_len), strip(feed[i].link))]

Sorted == pc \in {"post", "send", "sleep_tg"}

\* C13: the sends of a cycle take the candidates of the sorted list one after
\* the other from the first; the sorted list is ascending in rank, a
\* candidate has the rank of its source and 999 if the source has none, and
\* the candidates of one rank stand in the order they were collected in:
\* source after source as configured, and within a source in the order of
\* the entries of its feed.
C13_RankThenCollectionOrder ==
    /\ \A n \in 1..Len(attempts) : attempts[n].idx = n
    /\ Sorted =>
         /\ \A i, j \in 1..Len(candidates) :
                i < j => candidates[i].rank <= candidates[j].rank
         /\ \A r \in RanksOf(candidates) \cup RanksOf(Flatten(fetch_log)) :
                OfRank(candidates, r) = OfRank(Flatten(fetch_log), r)
         /\ \A k \in 1..Len(fetch_log) :
                /\ fetch_log[k].name = cfg.sources[k].name
                /\ \A n \in 1..Len(fetch_log[k].items) :
                       /\ fetch_log[k].items[n].name = cfg.sources[k].name
                       /\ fetch_log[k].items[n].rank =
                              IF "rank" \in DOMAIN cfg.sources[k]
                              THEN cfg.sources[k].rank ELSE 999
                /\ \E feed \in web \cup {<<>>} :
                       IsSubsequence(ItemsOf(fetch_log[k].items), FeedItems(cfg, feed))

\* C13 witness: a third send is under way, after the two candidates of the
\* rank-1 source, to a candidate of rank 2 from the later of two rank-2
\* sources while the source without a rank, configured first, still waits
\* with its candidates of rank 999 at the end of the list.
C13_Witness ==
    /\ pc = "send"
    /\ idx = 3
    /\ Len(attempts) = 2
    /\ candidates[1].name = "gamma" /\ candidates[2].name = "gamma"
    /\ candidates[1].title # candidates[2].title
    /\ candidates[3].name = "alfa"
    /\ \E i \in 4..Len(candidates) : candidates[i].name = "zeta"
    /\ candidates[Len(candidates)].name = "eps"
    /\ candidates[Len(candidates)].rank = 999

\* the cycle that begins, after the rollover, is gated
Gated ==
    \/ ~in_posting_window(cfg, now)
    \/ state.posts_today >= cfg.max_posts_per_day

GateSleeps == pc \in {"sleep_window", "sleep_quota"}

\* C14: a cycle, the pipeline run after the day rollover, that begins outside
\* every window or with the quota used up fetches nothing, sends nothing,
\* leaves the state and the file alone and goes to sleep, 60 seconds for the
\* window and 300 for the quota; after the sleep the loop starts over with
\* the state still as it was.  Whenever a cycle has fetched or sent, it began
\* inside a window and below the quota.
C14_GatedCycleIsNoOp ==
    /\ [][ (pc = "gate" /\ pc' # "gate" /\ Gated) =>
               /\ pc' = IF ~in_posting_window(cfg, now) THEN "sleep_window"
                        ELSE "sleep_quota"
               /\ state' = state /\ disk' = disk
               /\ fetch_log' = <<>> /\ attempts' = <<>> /\ candidates' = <<>> ]_vars
    /\ [][ (GateSleeps /\ pc' # pc) =>
               /\ pc' = "top"
               /\ clock' = clock + (IF pc = "sleep_window" THEN 60 ELSE 300)
               /\ state' = state /\ disk' = disk
               /\ fetch_log' = <<>> /\ attempts' = <<>> ]_vars
    /\ [](GateSleeps =>
             /\ fetch_log = <<>> /\ attempts = <<>> /\ candidates = <<>>
             /\ state = cycle0.state /\ disk = cycle0.disk)
    /\ []((fetch_log # <<>> \/ attempts # <<>>) =>
             /\ in_posting_window(cfg, now)
             /\ cycle0.state.posts_today < cfg.max_posts_per_day)

\* C14 witness: a cycle that began inside a window with the quota used up,
\* the ledger not empty, is asleep.
C14_Witness ==
    /\ pc = "sleep_quota"
    /\ cfg.windows # <<>>
    /\ cfg.max_posts_per_day > 0
    /\ state.posts_today = cfg.max_posts_per_day
    /\ state.recent_hashes # <<>>

\* C14 witness: a cycle that began outside every window is asleep.
C14_WitnessWindow ==
    /\ pc = "sleep_window"
    /\ state.posts_today < cfg.max_posts_per_day

(***************************************************************************)
(* A function of the bot called alone: call holds the arguments and, once  *)
(* the function returned, <<the result>>.                                  *)
(***************************************************************************)
InitCall(calls) ==
    /\ call \in calls
    /\ cfg = call.cfg
    /\ web = {}
    /\ state = EmptyState
    /\ disk = NoFile
    /\ clock = StartClock
    /\ now = StartClock
    /\ pc = "call"
    /\ src_i = 1
    /\ candidates = <<>>
    /\ idx = 1
    /\ code = 0
    /\ attempts = <<>>
    /\ fetch_log = <<>>
    /\ rolled_from = <<>>
    /\ cycle0 = [state |-> state, disk |-> disk]
    /\ last_post = <<>>
    /\ save_failed = FALSE

Return(result) ==
    /\ pc = "call"
    /\ pc' = "returned"
    /\ call' = [call EXCEPT !.returned = <<result>>]
    /\ UNCHANGED <<cfg, web, state, disk, clock, now, cycle_vars, hist_vars>>

(***************************************************************************)
(* passes_filters called alone.                                            *)
(***************************************************************************)
FilterKeywords == { <<"a">>, <<"A">>, <<"S">>, <<"a", " ", "s">>, <<>> }

KeywordLists ==
    {<<>>} \cup { <<k>> : k \in FilterKeywords } \cup
    { << <<"b", "b">>, k >> : k \in {<<"A">>, <<"s">>} }

TitleLetters == {"a", "A", "s", "b"}

Titles ==
    {<<>>} \cup { <<x>> : x \in TitleLetters } \cup
    { <<x, y>> : x, y \in TitleLetters }

Summaries == { <<>>, <<"s">>, <<"S", "a">>, <<"b">> }

FilterCalls ==
    { [fn |-> "passes_filters",
       cfg |-> [required_keywords_any |-> req, blocked_keywords |-> blk],
       title |-> t, summary |-> sm, returned |-> <<>>] :
      req \in KeywordLists, blk \in KeywordLists, t \in Titles, sm \in Summaries }

InitFilters == InitCall(FilterCalls)

PassesFilters == Return(passes_filters(call.cfg, call.title, call.summary))

SpecFilters == InitFilters /\ [][PassesFilters]_vars

\* the same letter, whatever the case
SameLetter(x, y) ==
    \/ x = y
    \/ {x, y} \in { {"a", "A"}, {"b", "B"}, {"s", "S"} }

\* k occurs in text at some offset, letter by letter without regard to case
OccursIn(k, text) ==
    \E off \in 0..(Len(text) - Len(k)) :
        \A j \in 1..Len(k) : SameLetter(text[off + j], k[j])

FilterText == call.title \o <<" ">> \o call.summary

RequiredHit ==
    \E i \in 1..Len(call.cfg.required_keywords_any) :
        OccursIn(call.cfg.required_keywords_any[i], FilterText)

BlockedHit ==
    \E i \in 1..Len(call.cfg.blocked_keywords) :
        OccursIn(call.cfg.blocked_keywords[i], FilterText)

\* C15: passes_filters returns true exactly when the required list is empty
\* or one of its keywords occurs, case ignored, in title + " " + summary, and
\* no blocked keyword occurs there; when a required and a blocked keyword
\* both occur it returns false.
C15_PassesFilters ==
    pc = "returned" =>
        /\ call.returned[1] =
               ((call.cfg.required_keywords_any = <<>> \/ RequiredHit) /\ ~BlockedHit)
        /\ (RequiredHit /\ BlockedHit) => call.returned[1] = FALSE

\* C15 witness: a text in which a required keyword occurs in the other case
\* and a blocked keyword occurs across title and summary was rejected.
C15_Witness ==
    /\ pc = "returned"
    /\ call.cfg.required_keywords_any = << <<"b", "b">>, <<"A">> >>
    /\ call.cfg.blocked_keywords = << <<"a", " ", "s">> >>
    /\ call.title = <<"b", "a">>
    /\ call.summary = <<"s">>
    /\ call.returned = <<FALSE>>

(***************************************************************************)
(* in_posting_window called alone.                                         *)
(***************************************************************************)
Window(a, b) == [start |-> a, end |-> b]

Morning == Window(<<"0", "9", ":", "0", "0">>, <<"0", "9", ":", "0", "5">>)

Evening == Window(<<"2", "3", ":", "5", "0">>, <<"2", "3", ":", "5", "9">>)

Reversed == Window(<<"0", "9", ":", "0", "5">>, <<"0", "9", ":", "0", "0">>)

Instant == Window(<<"0", ":", "0">>, <<"0", ":", "0">>)

WindowLists ==
    { <<>>, <<Morning>>, <<Evening, Morning>>, <<Reversed>>, <<Instant, Evening>> }

\* seconds of the day around the bounds of the windows
TimesOfDay ==
    { 0, 1, 32399, 32400, 32401, 32699, 32700, 32701, 32730, 43200,
      85799, 85800, 86340, 86341, 86399 }

Days == 0..2

WindowCalls ==
    { [fn |-> "in_posting_window", cfg |-> [windows |-> w],
       dt |-> SecondsPerDay * d + t, returned |-> <<>>] :
      w \in WindowLists, d \in Days, t \in TimesOfDay }

InitWindows == InitCall(WindowCalls)

InPostingWindow == Return(in_posting_window(call.cfg, call.dt))

SpecWindows == InitWindows /\ [][InPostingWindow]_vars

\* "HH:MM" with one or two digits on each side, as seconds of the day
BoundSeconds(s) ==
    LET h == IF s[2] = ":" THEN digit(s[1]) ELSE 10 * digit(s[1]) + digit(s[2])
        m == IF s[Len(s) - 1] = ":" THEN digit(s[Len(s)])
             ELSE 10 * digit(s[Len(s) - 1]) + digit(s[Len(s)])
    IN  (60 * h + m) * 60

SecondOfDay == call.dt - 86400 * (call.dt \div 86400)

InSomeWindow ==
    \E i \in 1..Len(call.cfg.windows) :
        /\ BoundSeconds(call.cfg.windows[i].start) <= SecondOfDay
        /\ SecondOfDay <= BoundSeconds(call.cfg.windows[i].end)

\* C16: in_posting_window returns true exactly when there is no window or the
\* time of day is at or after the start and at or before the end of one of
\* the windows, whatever the day.
C16_InPostingWindow ==
    pc = "returned" =>
        call.returned[1] = (call.cfg.windows = <<>> \/ InSomeWindow)

\* C16 witness: on the third day, at the very end of the second of two
\* windows, the answer was true.
C16_Witness ==
    /\ pc = "returned"
    /\ call.cfg.windows = <<Evening, Morning>>
    /\ call.dt = 2 * 86400 + 32700
    /\ call.returned = <<TRUE>>

\* C16 witness: thirty seconds after the end of the only window the answer
\* was false.
C16_WitnessAfterEnd ==
    /\ pc = "returned"
    /\ call.cfg.windows = <<Morning>>
    /\ call.dt = 32730
    /\ call.returned = <<FALSE>>

(***************************************************************************)
(* The bot before a feed with more entries than line 206 takes.            *)
(***************************************************************************)
LongFeed ==
    [i \in 1..(EntriesPerFeed + 1) |->
        [title |-> <<"a">>, link |-> <<ToString(i)>>, summary |-> <<>>,
         description |-> <<>>]]

LongConfigs ==
    { k \in Configs : /\ k.bot_token # <<>>
                      /\ k.max_posts_per_day = 1
                      /\ k.poll_interval_seconds = 300 }

\* the first start of the bot: no state file yet
InitLong ==
    /\ cfg \in LongConfigs
    /\ web = {LongFeed, <<EntryA2, EntryB>>}
    /\ call = <<>>
    /\ state = EmptyState
    /\ disk = NoFile
    /\ clock = StartClock
    /\ now = StartClock
    /\ pc = "start"
    /\ src_i = 1
    /\ candidates = <<>>
    /\ idx = 1
    /\ code = 0
    /\ attempts = <<>>
    /\ fetch_log = <<>>
    /\ rolled_from = <<>>
    /\ cycle0 = [state |-> state, disk |-> disk]
    /\ last_post = <<>>
    /\ save_failed = FALSE

SpecLong == InitLong /\ [][Next]_vars

InCycle ==
    pc \in {"gate", "collect", "post", "send", "sleep_tg", "sleep_window",
            "sleep_quota", "sleep_poll", "sleep_err"}

EnabledSources ==
    { k \in 1..Len(cfg.sources) :
        /\ cfg.sources[k].type = "rss"
        /\ cfg.sources[k].region = "IT"
        /\ cfg.sources[k].lang = "it" }

\* the most candidates a cycle can collect
MostCandidates == 25 * Cardinality(EnabledSources)

\* the candidates not yet passed by the for loop of line 222
Remaining == Len(candidates) - idx + 1

\* an upper bound of the steps the cycle still takes before the loop starts
\* over
StepsLeft ==
    CASE pc = "gate" -> Len(cfg.sources) + 3 * MostCandidates + 5
      [] pc = "collect" -> (Len(cfg.sources) - src_i + 1) + 3 * MostCandidates + 4
      [] pc = "post" -> 3 * Remaining + 2
      [] pc = "send" -> 3 * Remaining + 1
      [] pc = "sleep_tg" -> 3 * Remaining
      [] pc \in {"sleep_window", "sleep_quota", "sleep_poll", "sleep_err"} -> 1
      [] OTHER -> 0

\* C17: a cycle ends after finitely many steps, each step of it lowering a
\* bound that is never negative; the sends of a cycle go to candidates of
\* ever higher position in the list, none twice, so they are no more than
\* the candidates; a source adds at most 25 candidates; when the loop starts
\* over the candidate list of the cycle is gone.
C17_CycleIsFinite ==
    /\ [][ InCycle => StepsLeft' < StepsLeft ]_vars
    /\ [](StepsLeft >= 0)
    /\ [](/\ \A m, n \in 1..Len(attempts) :
                m < n => attempts[m].idx < attempts[n].idx
          /\ \A n \in 1..Len(attempts) : attempts[n].idx \in 1..Len(candidates)
          /\ Len(attempts) <= Len(candidates)
          /\ pc = "send" => (idx \in 1..Len(candidates) /\ Len(attempts) < idx)
          /\ \A k \in 1..Len(fetch_log) : Len(fetch_log[k].items) <= 25
          /\ Len(candidates) <= MostCandidates
          /\ pc \in {"top", "gate"} => (candidates = <<>> /\ attempts = <<>>))

\* C17 witness: a feed of 26 entries gave 25 candidates, the first was sent
\* and refused and the second is being sent.
C17_Witness ==
    /\ pc = "send"
    /\ idx = 2
    /\ Len(attempts) = 1
    /\ \E k \in 1..Len(fetch_log) : Len(fetch_log[k].items) = 25

\* C17 witness: every candidate of the cycle was sent and refused, and the
\* cycle is over with its candidates unpublished.
C17_WitnessAllRefused ==
    /\ pc = "sleep_poll"
    /\ Len(candidates) >= 2
    /\ Len(attempts) = Len(candidates)
    /\ state = cycle0.state

\* ledger b is ledger a after at most one record
AtMostOneRecord(a, b) ==
    \/ b = a
    \/ /\ b # <<>>
       /\ Len(b) <= Len(a) + 1
       /\ \E i \in 1..Len(candidates) : b[Len(b)] = candidates[i].h
       /\ SubSeq(b, 1, Len(b) - 1) =
              SubSeq(a, Len(a) - (Len(b) - 1) + 1, Len(a))

\* C18: in a cycle only the last send can have been answered with 200, no
\* send is made or waited for after such an answer, and the counter is at
\* most one above, the ledger at most one record past, what they were when
\* the cycle began.
C18_OnePublishPerCycle ==
    /\ \A n \in 1..Len(attempts) : attempts[n].code = 200 => n = Len(attempts)
    /\ pc \in {"post", "send", "sleep_tg"} =>
           \A n \in 1..Len(attempts) : attempts[n].code # 200
    /\ InPipeline =>
           /\ state.posts_today \in
                  {cycle0.state.posts_today, cycle0.state.posts_today + 1}
           /\ state.day = cycle0.state.day
           /\ AtMostOneRecord(cycle0.state.recent_hashes, state.recent_hashes)
           /\ (state.posts_today = cycle0.state.posts_today) <=>
                  (state.recent_hashes = cycle0.state.recent_hashes)

\* C18 witness: the first candidate was refused, the second published, a
\* third is left in the list and the quota would allow one more, yet the
\* cycle is over.
C18_Witness ==
    /\ pc = "sleep_poll"
    /\ Len(attempts) = 2
    /\ attempts[1].code = 400
    /\ attempts[2].code = 200
    /\ Len(candidates) > 2
    /\ state.posts_today = cycle0.state.posts_today + 1
    /\ state.posts_today < cfg.max_posts_per_day

Fingerprint(cand) == cand.title \o <<"|">> \o cand.link

InLedger(h) == \E i \in DOMAIN state.recent_hashes : state.recent_hashes[i] = h

NoRepeats(l) == Cardinality({ l[i] : i \in DOMAIN l }) = Len(l)

\* C19: while a send is under way the fingerprint of its candidate is not in
\* recent_hashes; the ledger the bot starts with has no repeated entry, and
\* every step that changes recent_hashes, a record or a day rollover, leaves
\* it without a repeated entry.
C19_NoSendOfSeenNoRepeats ==
    /\ [](pc = "send" =>
             /\ candidates[idx].h = Fingerprint(candidates[idx])
             /\ ~InLedger(Fingerprint(candidates[idx])))
    /\ NoRepeats(state.recent_hashes)
    /\ [][ state'.recent_hashes # state.recent_hashes =>
               NoRepeats(state'.recent_hashes) ]_vars

\* C19 witness: the ledger is full and holds the fingerprint of one entry of
\* the feed; the other entry of the feed, not in the ledger, is being sent.
C19_Witness ==
    /\ pc = "send"
    /\ Len(state.recent_hashes) = 1500
    /\ InLedger(HashA)
    /\ Fingerprint(candidates[idx]) # HashA
    /\ Len(candidates) = 1

\* C19 witness: after a day rollover that cut the ledger to 500 entries two
\* candidates were published in two cycles and are its newest entries.
C19_WitnessAfterRollover ==
    /\ pc = "sleep_poll"
    /\ Len(state.recent_hashes) = 502
    /\ state.posts_today = 2
    /\ state.recent_hashes[501] # state.recent_hashes[502]
    /\ \E i \in 1..Len(candidates) : state.recent_hashes[502] = candidates[i].h

====
